---- MODULE Spec2Model ----
(***************************************************************************)
(* Delivery simulation of the logistics back office: the POST              *)
(* /api/simulation/run handler (backend/src/routes/simulation.ts) and the  *)
(* SimulationEngine it calls (backend/src/services/simulationEngine.ts),   *)
(* over the Driver / Route / Order / SimulationResult collections.         *)
(*                                                                         *)
(* Numbers.  JavaScript numbers are modelled as exact fixed-point          *)
(* integers, each quantity in the finest unit the code can produce from    *)
(* the modelled inputs:                                                    *)
(*   - money (orderValue, fuelCost, bonus, penalty, totals): 1/1000 rupee  *)
(*   - distanceKm: 1/100 km                                                *)
(*   - estimatedDeliveryTime: 1/100 minute                                 *)
(*   - actualDeliveryTime, baseTimeMinutes: whole minutes                  *)
(*   - driver workload: minutes (the code keeps hours = minutes / 60)      *)
(*   - Math.random(): 1/1000, so the random factor is in 1/10000           *)
(*   - efficiencyScore: 1/10 percent (the code rounds to one decimal)      *)
(* Math.round is modelled as what it computes: floor(x + 1/2).             *)
(***************************************************************************)
EXTENDS Integers, Sequences, FiniteSets, TLC

VARIABLES drivers, routes, orders, history, run, clock

vars == <<drivers, routes, orders, history, run, clock>>

-----------------------------------------------------------------------------
(* Bounds of the model *)

MaxDrivers == 2
MaxOrders == 3

-----------------------------------------------------------------------------
(* Value domains of the stored documents and of the request parameters *)

TrafficLevels == {"Low", "Medium", "High"}
Statuses == {"Pending", "In Progress", "Delivered", "Late"}

ShiftHoursValues == {0, 1}
PastWeekHoursValues == {56, 57}
OrderValues == {1000, 1001, 1500}
BaseTimeValues == {20, 30, 40}
DistanceValues == {25, 1000}
NumberOfDriversValues == {1, 2}
MaxHoursValues == {1, 2}
RandomDraws == {0, 999}

Requests == {"req1"}

Null == [isNull |-> TRUE]

SeqsUpTo(S, n) == UNION {[1..k -> S] : k \in 0..n}

(* Unit conversions of the fixed-point representation *)
Rupees(n) == n * 1000
KmCost(dist100, perKm) == dist100 * perKm * 10
HoursToMinutes(h) == h * 60

(* Math.round(n / d) for d > 0 *)
Round(n, d) == (2 * n + d) \div (2 * d)

Min(a, b) == IF a < b THEN a ELSE b

(* Array.prototype.sort with a comparator that orders by ascending key:     *)
(* the sort is stable, so equal keys keep their input order.  key[i] is the *)
(* sort key of seq[i].                                                      *)
StableSort(seq, key) ==
  LET n == Len(seq)
      rank(i) == Cardinality({j \in 1..n : key[j] < key[i] \/ (key[j] = key[i] /\ j < i)}) + 1
  IN  [k \in 1..n |-> seq[CHOOSE i \in 1..n : rank(i) = k]]

-----------------------------------------------------------------------------
(* Data access of runSimulation *)

(* Variant: the limit is lost, Driver.find() *)
FetchDrivers_All(n) == drivers

(* Driver.find().limit(numberOfDrivers) *)
FetchDrivers(n) == SubSeq(drivers, 1, Min(n, Len(drivers)))

(* populate('routeId'): the referenced route document, or null when no      *)
(* route with that id is stored                                             *)
Populate(routeId) ==
  IF \E i \in 1..Len(routes) : routes[i].id = routeId
  THEN routes[CHOOSE i \in 1..Len(routes) : routes[i].id = routeId]
  ELSE Null

(* Variant: only Late orders are left out *)
EligibleStatus_WithDelivered(status) == status \in {"Pending", "In Progress", "Delivered"}

(* status: { $in: ['Pending', 'In Progress'] } *)
EligibleStatus(status) == status \in {"Pending", "In Progress"}

(* Order.find({status: {$in: ['Pending', 'In Progress']}}).populate('routeId') *)
FetchOrders ==
  LET found == SelectSeq(orders, LAMBDA o : EligibleStatus(o.status))
  IN  [i \in 1..Len(found) |-> [found[i] EXCEPT !.routeId = Populate(@)]]

-----------------------------------------------------------------------------
(* SimulationEngine: the business rules *)

(* Variant: variation = 0.4, the +-20% of the code's comment *)
RandomFactor_Wide(rand) == 10000 + (rand - 500) * 4

(* randomFactor = 1 + (Math.random() - 0.5) * variation, variation = 0.2;   *)
(* rand in 1/1000, the factor in 1/10000                                    *)
RandomFactor(rand) == 10000 + (rand - 500) * 2

(* Math.round(estimatedTime * randomFactor); est100 in 1/100 minute *)
simulateActualDeliveryTime(est100, rand) ==
  Round(est100 * RandomFactor(rand), 1000000)

(* Variant: the surcharge is charged on every route that is not Low *)
calculateFuelCost_SurchargeOnMedium(route) ==
  LET baseCost == KmCost(route.distanceKm, 5)
      trafficSurcharge == IF route.trafficLevel # "Low" THEN KmCost(route.distanceKm, 2) ELSE 0
  IN  baseCost + trafficSurcharge

(* distanceKm * 5, plus distanceKm * 2 for High traffic *)
calculateFuelCost(route) ==
  LET baseCost == KmCost(route.distanceKm, 5)
      trafficSurcharge == IF route.trafficLevel = "High" THEN KmCost(route.distanceKm, 2) ELSE 0
  IN  baseCost + trafficSurcharge

(* Variant: orderValue >= 1000 *)
calculateBonus_From1000(orderValue, isOnTime) ==
  IF orderValue >= Rupees(1000) /\ isOnTime THEN orderValue \div 10 ELSE 0

(* Variant: the bonus does not look at isOnTime *)
calculateBonus_IgnoresLateness(orderValue, isOnTime) ==
  IF orderValue > Rupees(1000) THEN orderValue \div 10 ELSE 0

(* orderValue * 0.1 when orderValue > 1000 and on time *)
calculateBonus(orderValue, isOnTime) ==
  IF orderValue > Rupees(1000) /\ isOnTime THEN orderValue \div 10 ELSE 0

(* Variant: pastWeekHours >= 8 * 7 *)
FatigueAdjusted_From56(route, driver) ==
  IF driver.pastWeekHours >= 8 * 7 THEN route.baseTimeMinutes * 13 ELSE route.baseTimeMinutes * 10

(* fatigue: pastWeekHours > 8 * 7 multiplies the time by 1.3; result in 1/10 minute *)
FatigueAdjusted(route, driver) ==
  IF driver.pastWeekHours > 8 * 7 THEN route.baseTimeMinutes * 13 ELSE route.baseTimeMinutes * 10

(* Variant: High traffic is given the factor of Medium, 1.2 *)
TrafficAdjusted_HighAsMedium(time10, trafficLevel) ==
  CASE trafficLevel = "High" -> time10 * 12
    [] trafficLevel = "Medium" -> time10 * 12
    [] OTHER -> time10 * 10

(* traffic: High * 1.5, Medium * 1.2, Low unchanged; result in 1/100 minute *)
TrafficAdjusted(time10, trafficLevel) ==
  CASE trafficLevel = "High" -> time10 * 15
    [] trafficLevel = "Medium" -> time10 * 12
    [] OTHER -> time10 * 10

(* Variant: actualTime < route.baseTimeMinutes + 10 *)
OnTime_Strict(actualTime, route) == actualTime < route.baseTimeMinutes + 10

(* actualTime <= route.baseTimeMinutes + 10 *)
OnTime(actualTime, route) == actualTime <= route.baseTimeMinutes + 10

(* Variant: the penalty is charged on every delivery *)
LatePenalty_Always(isOnTime) == Rupees(50)

(* isOnTime ? 0 : 50 *)
LatePenalty(isOnTime) == IF isOnTime THEN 0 ELSE Rupees(50)

(* The body of the forEach of assignDeliveries once a driver is available *)
MakeAssignment(order, availableDriver, rand) ==
  LET route == order.routeId
      estimatedTime == TrafficAdjusted(FatigueAdjusted(route, availableDriver), route.trafficLevel)
      actualTime == simulateActualDeliveryTime(estimatedTime, rand)
      isOnTime == OnTime(actualTime, route)
      fuelCost == calculateFuelCost(route)
      penalty == LatePenalty(isOnTime)
      bonus == calculateBonus(Rupees(order.valueRs), isOnTime)
  IN  [orderId |-> order.id,
       driverId |-> availableDriver.id,
       routeId |-> route.id,
       estimatedDeliveryTime |-> estimatedTime,
       actualDeliveryTime |-> actualTime,
       isOnTime |-> isOnTime,
       orderValue |-> Rupees(order.valueRs),
       fuelCost |-> fuelCost,
       bonus |-> bonus,
       penalty |-> penalty]

(* Variant: the filter is workload <= maxHoursPerDriver *)
AvailableDriver_AtOrUnderLimit(ds, driverWorkload, params) ==
  LET under == SelectSeq(ds, LAMBDA d :
                 driverWorkload[d.id] <= HoursToMinutes(params.maxHoursPerDriver))
      byLoad == StableSort(under, [i \in 1..Len(under) |-> driverWorkload[under[i].id]])
  IN  SubSeq(byLoad, 1, Min(1, Len(byLoad)))

(* Variant: the sort by workload is lost, drivers.filter(...)[0] *)
AvailableDriver_FirstUnderLimit(ds, driverWorkload, params) ==
  LET under == SelectSeq(ds, LAMBDA d :
                 driverWorkload[d.id] < HoursToMinutes(params.maxHoursPerDriver))
  IN  SubSeq(under, 1, Min(1, Len(under)))

(* Variant: the filter on maxHoursPerDriver is lost, drivers.sort(...)[0] *)
AvailableDriver_Unfiltered(ds, driverWorkload, params) ==
  LET byLoad == StableSort(ds, [i \in 1..Len(ds) |-> driverWorkload[ds[i].id]])
  IN  SubSeq(byLoad, 1, Min(1, Len(byLoad)))

(* drivers.filter(workload < maxHoursPerDriver).sort(by workload)[0]:       *)
(* the chosen driver as a one-element sequence, or <<>> when none is left   *)
AvailableDriver(ds, driverWorkload, params) ==
  LET under == SelectSeq(ds, LAMBDA d :
                 driverWorkload[d.id] < HoursToMinutes(params.maxHoursPerDriver))
      byLoad == StableSort(under, [i \in 1..Len(under) |-> driverWorkload[under[i].id]])
  IN  SubSeq(byLoad, 1, Min(1, Len(byLoad)))

(* Variant: an order whose route is missing is skipped (if (!route) return) *)
RECURSIVE AssignFrom_SkipsMissingRoute(_, _, _, _, _, _)
AssignFrom_SkipsMissingRoute(ds, sortedOrders, params, draws, i, st) ==
  IF i > Len(sortedOrders) \/ st.threw THEN st
  ELSE LET order == sortedOrders[i]
           available == AvailableDriver(ds, st.driverWorkload, params)
       IN  IF available = <<>> \/ order.routeId = Null
           THEN AssignFrom_SkipsMissingRoute(ds, sortedOrders, params, draws, i + 1, st)
           ELSE LET a == MakeAssignment(order, available[1], draws[i])
                IN  AssignFrom_SkipsMissingRoute(ds, sortedOrders, params, draws, i + 1,
                      [st EXCEPT !.assignments = Append(@, a),
                                 !.driverWorkload[a.driverId] = @ + a.actualDeliveryTime])

(* Variant: an order is also skipped when its estimated time does not fit in *)
(* what is left of the driver's hours                                       *)
RECURSIVE AssignFrom_ChecksFit(_, _, _, _, _, _)
AssignFrom_ChecksFit(ds, sortedOrders, params, draws, i, st) ==
  IF i > Len(sortedOrders) \/ st.threw THEN st
  ELSE LET order == sortedOrders[i]
           available == AvailableDriver(ds, st.driverWorkload, params)
       IN  IF available = <<>> THEN AssignFrom_ChecksFit(ds, sortedOrders, params, draws, i + 1, st)
           ELSE IF order.routeId = Null THEN [st EXCEPT !.threw = TRUE]
           ELSE LET a == MakeAssignment(order, available[1], draws[i])
                IN  IF st.driverWorkload[a.driverId] + Round(a.estimatedDeliveryTime, 100)
                         > HoursToMinutes(params.maxHoursPerDriver)
                    THEN AssignFrom_ChecksFit(ds, sortedOrders, params, draws, i + 1, st)
                    ELSE AssignFrom_ChecksFit(ds, sortedOrders, params, draws, i + 1,
                           [st EXCEPT !.assignments = Append(@, a),
                                      !.driverWorkload[a.driverId] = @ + a.actualDeliveryTime])

(* Variant: the workload is raised by the estimated time of the delivery,   *)
(* rounded to minutes, instead of the simulated actual time                 *)
RECURSIVE AssignFrom_AddsEstimate(_, _, _, _, _, _)
AssignFrom_AddsEstimate(ds, sortedOrders, params, draws, i, st) ==
  IF i > Len(sortedOrders) \/ st.threw THEN st
  ELSE LET order == sortedOrders[i]
           available == AvailableDriver(ds, st.driverWorkload, params)
       IN  IF available = <<>> THEN AssignFrom_AddsEstimate(ds, sortedOrders, params, draws, i + 1, st)
           ELSE IF order.routeId = Null THEN [st EXCEPT !.threw = TRUE]
           ELSE LET a == MakeAssignment(order, available[1], draws[i])
                IN  AssignFrom_AddsEstimate(ds, sortedOrders, params, draws, i + 1,
                      [st EXCEPT !.assignments = Append(@, a),
                                 !.driverWorkload[a.driverId] = @ + Round(a.estimatedDeliveryTime, 100)])

(* Variant: the workload is raised by a second simulated delivery time, a   *)
(* new call of simulateActualDeliveryTime with its own Math.random(),       *)
(* instead of the actualTime recorded in the assignment                     *)
RECURSIVE AssignFrom_SecondDraw(_, _, _, _, _, _)
AssignFrom_SecondDraw(ds, sortedOrders, params, draws, i, st) ==
  IF i > Len(sortedOrders) \/ st.threw THEN st
  ELSE LET order == sortedOrders[i]
           available == AvailableDriver(ds, st.driverWorkload, params)
       IN  IF available = <<>> THEN AssignFrom_SecondDraw(ds, sortedOrders, params, draws, i + 1, st)
           ELSE IF order.routeId = Null THEN [st EXCEPT !.threw = TRUE]
           ELSE LET a == MakeAssignment(order, available[1], draws[i])
                    second == simulateActualDeliveryTime(a.estimatedDeliveryTime,
                                                         draws[(i % Len(sortedOrders)) + 1])
                IN  AssignFrom_SecondDraw(ds, sortedOrders, params, draws, i + 1,
                      [st EXCEPT !.assignments = Append(@, a),
                                 !.driverWorkload[a.driverId] = @ + second])

(* sortedOrders.forEach from position i on.  st = the assignments pushed so *)
(* far, the workload map, and whether an exception was thrown (the route of *)
(* a populated order is null, so route.baseTimeMinutes throws a TypeError). *)
RECURSIVE AssignFrom(_, _, _, _, _, _)
AssignFrom(ds, sortedOrders, params, draws, i, st) ==
  IF i > Len(sortedOrders) \/ st.threw THEN st
  ELSE LET order == sortedOrders[i]
           available == AvailableDriver(ds, st.driverWorkload, params)
       IN  IF available = <<>> THEN AssignFrom(ds, sortedOrders, params, draws, i + 1, st)
           ELSE IF order.routeId = Null THEN [st EXCEPT !.threw = TRUE]
           ELSE LET a == MakeAssignment(order, available[1], draws[i])
                IN  AssignFrom(ds, sortedOrders, params, draws, i + 1,
                      [st EXCEPT !.assignments = Append(@, a),
                                 !.driverWorkload[a.driverId] = @ + a.actualDeliveryTime])

(* Variant: the comparator is a.valueRs - b.valueRs, ascending *)
SortOrders_Ascending(os) == StableSort(os, [i \in 1..Len(os) |-> os[i].valueRs])

(* orders.sort((a, b) => b.valueRs - a.valueRs) *)
SortOrders(os) == StableSort(os, [i \in 1..Len(os) |-> 0 - os[i].valueRs])

assignDeliveries(ds, os, params, draws) ==
  LET driverWorkload == [id \in {ds[i].id : i \in 1..Len(ds)} |->
                           HoursToMinutes((CHOOSE d \in {ds[i] : i \in 1..Len(ds)} : d.id = id).currentShiftHours)]
  IN  AssignFrom(ds, SortOrders(os), params, draws, 1,
        [assignments |-> <<>>, driverWorkload |-> driverWorkload, threw |-> FALSE])

(* Variant: the split is 80% base cost and 20% traffic surcharge *)
AccumulateStep_SplitsEightyTwenty(acc, a) ==
  LET deliveryProfit == a.orderValue + a.bonus - a.penalty - a.fuelCost
  IN  [totalProfit |-> acc.totalProfit + deliveryProfit,
       onTimeDeliveries |-> IF a.isOnTime THEN acc.onTimeDeliveries + 1 ELSE acc.onTimeDeliveries,
       lateDeliveries |-> IF a.isOnTime THEN acc.lateDeliveries ELSE acc.lateDeliveries + 1,
       totalBaseFuelCost |-> acc.totalBaseFuelCost + (a.fuelCost * 8) \div 10,
       totalTrafficSurcharge |-> acc.totalTrafficSurcharge + (a.fuelCost * 2) \div 10]

(* Variant: the penalty is added to the profit instead of subtracted *)
AccumulateStep_AddsPenalty(acc, a) ==
  LET deliveryProfit == a.orderValue + a.bonus + a.penalty - a.fuelCost
  IN  [totalProfit |-> acc.totalProfit + deliveryProfit,
       onTimeDeliveries |-> IF a.isOnTime THEN acc.onTimeDeliveries + 1 ELSE acc.onTimeDeliveries,
       lateDeliveries |-> IF a.isOnTime THEN acc.lateDeliveries ELSE acc.lateDeliveries + 1,
       totalBaseFuelCost |-> acc.totalBaseFuelCost + (a.fuelCost * 7) \div 10,
       totalTrafficSurcharge |-> acc.totalTrafficSurcharge + (a.fuelCost * 3) \div 10]

(* Variant: the else of the delivery count is lost, lateDeliveries++ always runs *)
AccumulateStep_CountsAllAsLate(acc, a) ==
  LET deliveryProfit == a.orderValue + a.bonus - a.penalty - a.fuelCost
  IN  [totalProfit |-> acc.totalProfit + deliveryProfit,
       onTimeDeliveries |-> IF a.isOnTime THEN acc.onTimeDeliveries + 1 ELSE acc.onTimeDeliveries,
       lateDeliveries |-> acc.lateDeliveries + 1,
       totalBaseFuelCost |-> acc.totalBaseFuelCost + (a.fuelCost * 7) \div 10,
       totalTrafficSurcharge |-> acc.totalTrafficSurcharge + (a.fuelCost * 3) \div 10]

(* The callback of assignments.forEach in calculateResults: one assignment *)
(* added to the running totals                                             *)
AccumulateStep(acc, a) ==
  LET deliveryProfit == a.orderValue + a.bonus - a.penalty - a.fuelCost
  IN  [totalProfit |-> acc.totalProfit + deliveryProfit,
       onTimeDeliveries |-> IF a.isOnTime THEN acc.onTimeDeliveries + 1 ELSE acc.onTimeDeliveries,
       lateDeliveries |-> IF a.isOnTime THEN acc.lateDeliveries ELSE acc.lateDeliveries + 1,
       totalBaseFuelCost |-> acc.totalBaseFuelCost + (a.fuelCost * 7) \div 10,
       totalTrafficSurcharge |-> acc.totalTrafficSurcharge + (a.fuelCost * 3) \div 10]

(* assignments.forEach over assignments[1..n], from totals of zero *)
RECURSIVE Accumulate(_, _)
Accumulate(assignments, n) ==
  IF n = 0
  THEN [totalProfit |-> 0, onTimeDeliveries |-> 0, lateDeliveries |-> 0,
        totalBaseFuelCost |-> 0, totalTrafficSurcharge |-> 0]
  ELSE AccumulateStep(Accumulate(assignments, n - 1), assignments[n])

(* Math.round(x * 100) / 100 of an amount in 1/1000 rupee *)
RoundMoney(x) == Round(x, 10) * 10

(* Variant: the efficiency score is truncated (Math.floor) to one decimal *)
calculateResults_Truncates(assignments) ==
  LET acc == Accumulate(assignments, Len(assignments))
      totalDeliveries == acc.onTimeDeliveries + acc.lateDeliveries
  IN  [totalProfit |-> RoundMoney(acc.totalProfit),
       efficiencyScore |-> IF totalDeliveries > 0
                           THEN (acc.onTimeDeliveries * 1000) \div totalDeliveries
                           ELSE 0,
       onTimeDeliveries |-> acc.onTimeDeliveries,
       lateDeliveries |-> acc.lateDeliveries,
       fuelCostBreakdown |->
         [baseCost |-> RoundMoney(acc.totalBaseFuelCost),
          trafficSurcharge |-> RoundMoney(acc.totalTrafficSurcharge),
          total |-> RoundMoney(acc.totalBaseFuelCost + acc.totalTrafficSurcharge)]]

(* Variant: the efficiency score is the share of late deliveries *)
calculateResults_ScoresLate(assignments) ==
  LET acc == Accumulate(assignments, Len(assignments))
      totalDeliveries == acc.onTimeDeliveries + acc.lateDeliveries
  IN  [totalProfit |-> RoundMoney(acc.totalProfit),
       efficiencyScore |-> IF totalDeliveries > 0
                           THEN Round(acc.lateDeliveries * 1000, totalDeliveries)
                           ELSE 0,
       onTimeDeliveries |-> acc.onTimeDeliveries,
       lateDeliveries |-> acc.lateDeliveries,
       fuelCostBreakdown |->
         [baseCost |-> RoundMoney(acc.totalBaseFuelCost),
          trafficSurcharge |-> RoundMoney(acc.totalTrafficSurcharge),
          total |-> RoundMoney(acc.totalBaseFuelCost + acc.totalTrafficSurcharge)]]

(* Variant: the total of the breakdown leaves out the traffic surcharge *)
calculateResults_TotalWithoutSurcharge(assignments) ==
  LET acc == Accumulate(assignments, Len(assignments))
      totalDeliveries == acc.onTimeDeliveries + acc.lateDeliveries
  IN  [totalProfit |-> RoundMoney(acc.totalProfit),
       efficiencyScore |-> IF totalDeliveries > 0
                           THEN Round(acc.onTimeDeliveries * 1000, totalDeliveries)
                           ELSE 0,
       onTimeDeliveries |-> acc.onTimeDeliveries,
       lateDeliveries |-> acc.lateDeliveries,
       fuelCostBreakdown |->
         [baseCost |-> RoundMoney(acc.totalBaseFuelCost),
          trafficSurcharge |-> RoundMoney(acc.totalTrafficSurcharge),
          total |-> RoundMoney(acc.totalBaseFuelCost)]]

calculateResults(assignments) ==
  LET acc == Accumulate(assignments, Len(assignments))
      totalDeliveries == acc.onTimeDeliveries + acc.lateDeliveries
  IN  [totalProfit |-> RoundMoney(acc.totalProfit),
       efficiencyScore |-> IF totalDeliveries > 0
                           THEN Round(acc.onTimeDeliveries * 1000, totalDeliveries)
                           ELSE 0,
       onTimeDeliveries |-> acc.onTimeDeliveries,
       lateDeliveries |-> acc.lateDeliveries,
       fuelCostBreakdown |->
         [baseCost |-> RoundMoney(acc.totalBaseFuelCost),
          trafficSurcharge |-> RoundMoney(acc.totalTrafficSurcharge),
          total |-> RoundMoney(acc.totalBaseFuelCost + acc.totalTrafficSurcharge)]]

-----------------------------------------------------------------------------
(* The stored collections the model starts from *)

DriverDocs == [currentShiftHours : ShiftHoursValues, pastWeekHours : PastWeekHoursValues]
RouteDocs == [trafficLevel : TrafficLevels, distanceKm : DistanceValues,
              baseTimeMinutes : BaseTimeValues]
OrderDocs == [valueRs : OrderValues, routeId : {1}, status : Statuses]

(* Documents get their ids in insertion order *)
WithIds(docs) == [i \in 1..Len(docs) |-> docs[i] @@ [id |-> i]]

(* A route catalog of one route per traffic level, and orders on it *)
CatalogRoutes ==
  << [trafficLevel |-> "Low", distanceKm |-> 1000, baseTimeMinutes |-> 30],
     [trafficLevel |-> "Medium", distanceKm |-> 25, baseTimeMinutes |-> 30],
     [trafficLevel |-> "High", distanceKm |-> 1000, baseTimeMinutes |-> 20] >>

CatalogDriverDocs ==
  { [currentShiftHours |-> 0, pastWeekHours |-> 56],
    [currentShiftHours |-> 1, pastWeekHours |-> 57] }

CatalogOrderDocs ==
  { [valueRs |-> 1500, routeId |-> 1, status |-> "Pending"],
    [valueRs |-> 1500, routeId |-> 2, status |-> "In Progress"],
    [valueRs |-> 1000, routeId |-> 3, status |-> "Pending"],
    [valueRs |-> 1001, routeId |-> 1, status |-> "Delivered"] }

(* At most one driver, route and order, of every modelled kind *)
InitSingle ==
  /\ \E ds \in SeqsUpTo(DriverDocs, 1) : drivers = WithIds(ds)
  /\ \E rs \in SeqsUpTo(RouteDocs, 1) : routes = WithIds(rs)
  /\ \E os \in SeqsUpTo(OrderDocs, 1) : orders = WithIds(os)

(* Several drivers and orders over the catalog; the catalog's last route    *)
(* may have been deleted, which leaves the orders that reference it         *)
InitCatalog ==
  /\ \E ds \in SeqsUpTo(CatalogDriverDocs, MaxDrivers) : drivers = WithIds(ds)
  /\ \E n \in {2, 3} : routes = SubSeq(WithIds(CatalogRoutes), 1, n)
  /\ \E os \in SeqsUpTo(CatalogOrderDocs, MaxOrders) : Len(os) >= 2 /\ orders = WithIds(os)

SimulationParams == [numberOfDrivers : NumberOfDriversValues,
                     routeStartTime : {"09:00"},
                     maxHoursPerDriver : MaxHoursValues]

IdleRun == [pc |-> "idle", params |-> Null, drivers |-> <<>>, routes |-> <<>>,
            orders |-> <<>>, assignments |-> <<>>, result |-> Null,
            timestamp |-> 0, response |-> Null]

Init ==
  /\ InitSingle \/ InitCatalog
  /\ history = <<>>
  /\ run = [r \in Requests |-> IdleRun]
  /\ clock = 0

-----------------------------------------------------------------------------
(* POST /api/simulation/run *)

(* The request passed validateRequest(simulationParamsSchema); runSimulation *)
(* awaits its three queries.                                                *)
PostRun(r) ==
  /\ run[r].pc = "idle"
  /\ \E p \in SimulationParams :
       run' = [run EXCEPT ![r] = [IdleRun EXCEPT
                 !.pc = "fetched",
                 !.params = p,
                 !.drivers = FetchDrivers(p.numberOfDrivers),
                 !.routes = routes,
                 !.orders = FetchOrders]]
  /\ clock' = clock + 1
  /\ UNCHANGED <<drivers, routes, orders, history>>

(* Variant: the check of the order list is lost *)
InsufficientData_IgnoresOrders(r) ==
  Len(run[r].drivers) = 0 \/ Len(run[r].routes) = 0

(* drivers.length === 0 || routes.length === 0 || orders.length === 0 *)
InsufficientData(r) ==
  Len(run[r].drivers) = 0 \/ Len(run[r].routes) = 0 \/ Len(run[r].orders) = 0

(* One value of Math.random() for each fetched order *)
Draws(r) == [1..Len(run[r].orders) -> RandomDraws]

(* runSimulation throws 'Insufficient data for simulation...'; the handler's *)
(* catch answers 500                                                        *)
RunInsufficient(r) ==
  /\ run[r].pc = "fetched"
  /\ InsufficientData(r)
  /\ run' = [run EXCEPT ![r] = [IdleRun EXCEPT
               !.pc = "failed",
               !.response = [status |-> 500, error |-> "Insufficient data"]]]
  /\ clock' = clock + 1
  /\ UNCHANGED <<drivers, routes, orders, history>>

(* assignDeliveries throws; runSimulation rethrows, the handler's catch     *)
(* answers 500.  The loop throws only on an order whose populated route is  *)
(* null, when a driver is available for it.                                 *)
RunThrows(r) ==
  /\ run[r].pc = "fetched"
  /\ ~InsufficientData(r)
  /\ \E i \in 1..Len(run[r].orders) : run[r].orders[i].routeId = Null
  /\ \E draws \in Draws(r) :
       assignDeliveries(run[r].drivers, run[r].orders, run[r].params, draws).threw
  /\ run' = [run EXCEPT ![r] = [IdleRun EXCEPT
               !.pc = "failed",
               !.response = [status |-> 500, error |-> "TypeError"]]]
  /\ clock' = clock + 1
  /\ UNCHANGED <<drivers, routes, orders, history>>

(* Variant: the engine keeps the fetched drivers and orders in fields of the *)
(* one SimulationEngine instance that all requests share, so a run computes *)
(* on the lists of whichever request fetched last                           *)
RunComputes_SharedEngineFields(r) ==
  /\ run[r].pc = "fetched"
  /\ ~InsufficientData(r)
  /\ \E q \in DOMAIN run :
       /\ run[q].pc = "fetched"
       /\ ~InsufficientData(q)
       /\ \E draws \in Draws(q) :
            LET out == assignDeliveries(run[q].drivers, run[q].orders, run[r].params, draws)
            IN  /\ ~out.threw
                /\ run' = [run EXCEPT ![r].pc = "saving",
                                      ![r].assignments = out.assignments,
                                      ![r].result = calculateResults(out.assignments),
                                      ![r].timestamp = clock]
  /\ clock' = clock + 1
  /\ UNCHANGED <<drivers, routes, orders, history>>

(* assignDeliveries and calculateResults succeed; the handler builds the    *)
(* SimulationResult document (timestamp: new Date()) and awaits its save    *)
RunComputes(r) ==
  /\ run[r].pc = "fetched"
  /\ ~InsufficientData(r)
  /\ \E draws \in Draws(r) :
       LET out == assignDeliveries(run[r].drivers, run[r].orders, run[r].params, draws)
       IN  /\ ~out.threw
           /\ run' = [run EXCEPT ![r].pc = "saving",
                                 ![r].assignments = out.assignments,
                                 ![r].result = calculateResults(out.assignments),
                                 ![r].timestamp = clock]
  /\ clock' = clock + 1
  /\ UNCHANGED <<drivers, routes, orders, history>>

(* Variant: the handler also marks the assigned orders as delivered *)
SaveResult_MarksDelivered(r) ==
  /\ run[r].pc = "saving"
  /\ LET doc == [result |-> run[r].result,
                 simulationParams |-> run[r].params,
                 timestamp |-> run[r].timestamp]
         assigned == {run[r].assignments[j].orderId : j \in 1..Len(run[r].assignments)}
     IN  /\ history' = Append(history, doc)
         /\ orders' = [i \in 1..Len(orders) |->
                         IF orders[i].id \in assigned
                         THEN [orders[i] EXCEPT !.status = "Delivered"]
                         ELSE orders[i]]
         /\ run' = [run EXCEPT ![r] = [IdleRun EXCEPT
                               !.pc = "done",
                               !.response = [status |-> 200, body |-> doc]]]
  /\ clock' = clock + 1
  /\ UNCHANGED <<drivers, routes>>

(* Variant: the save overwrites the stored result (an upsert of one         *)
(* 'current' document) instead of inserting a new one                       *)
SaveResult_ReplacesLatest(r) ==
  /\ run[r].pc = "saving"
  /\ LET doc == [result |-> run[r].result,
                 simulationParams |-> run[r].params,
                 timestamp |-> run[r].timestamp]
     IN  /\ history' = <<doc>>
         /\ run' = [run EXCEPT ![r] = [IdleRun EXCEPT
                               !.pc = "done",
                               !.response = [status |-> 200, body |-> doc]]]
  /\ clock' = clock + 1
  /\ UNCHANGED <<drivers, routes, orders>>

(* simulationResult.save() completes; res.json(simulationResult) *)
SaveResult(r) ==
  /\ run[r].pc = "saving"
  /\ LET doc == [result |-> run[r].result,
                 simulationParams |-> run[r].params,
                 timestamp |-> run[r].timestamp]
     IN  /\ history' = Append(history, doc)
         /\ run' = [run EXCEPT ![r] = [IdleRun EXCEPT
                               !.pc = "done",
                               !.response = [status |-> 200, body |-> doc]]]
  /\ clock' = clock + 1
  /\ UNCHANGED <<drivers, routes, orders>>

Next ==
  \/ \E r \in Requests : PostRun(r)
  \/ \E r \in Requests : RunInsufficient(r)
  \/ \E r \in Requests : RunThrows(r)
  \/ \E r \in Requests : RunComputes(r)
  \/ \E r \in Requests : SaveResult(r)

Spec == Init /\ [][Next]_vars

-----------------------------------------------------------------------------
(* Two POST /api/simulation/run requests in flight at once.  Each await of  *)
(* a handler (the fetch, the save) lets the other request's handler run, so *)
(* the steps of the two requests interleave in every order.                 *)

PairRequests == {"req1", "req2"}

PairDriverDoc == [currentShiftHours |-> 0, pastWeekHours |-> 56]

PairOrderDocs ==
  << [valueRs |-> 1500, routeId |-> 1, status |-> "Pending"],
     [valueRs |-> 1500, routeId |-> 2, status |-> "In Progress"],
     [valueRs |-> 1000, routeId |-> 3, status |-> "Pending"],
     [valueRs |-> 1000, routeId |-> 1, status |-> "Pending"] >>

(* No driver or MaxDrivers rested drivers, the route catalog with or        *)
(* without its last route, and the first MaxOrders orders of the list       *)
InitPair ==
  /\ \E k \in {0, MaxDrivers} : drivers = WithIds([i \in 1..k |-> PairDriverDoc])
  /\ \E n \in {2, 3} : routes = SubSeq(WithIds(CatalogRoutes), 1, n)
  /\ orders = WithIds(SubSeq(PairOrderDocs, 1, Min(MaxOrders, Len(PairOrderDocs))))
  /\ history = <<>>
  /\ run = [r \in PairRequests |-> IdleRun]
  /\ clock = 0

NextPair ==
  \/ \E r \in PairRequests : PostRun(r)
  \/ \E r \in PairRequests : RunInsufficient(r)
  \/ \E r \in PairRequests : RunThrows(r)
  \/ \E r \in PairRequests : RunComputes(r)
  \/ \E r \in PairRequests : SaveResult(r)

SpecPair == InitPair /\ [][NextPair]_vars

-----------------------------------------------------------------------------
(* assignDeliveries one order at a time: the locals of the method while its *)
(* forEach runs.  position is the index in the sorted orders of the order   *)
(* the loop handles next; assignments, driverWorkload and threw are the     *)
(* loop state of AssignFrom.                                                *)

(* The locals when the forEach starts: driverWorkload seeded, orders sorted *)
LoopStart(ds, os, params) ==
  [pc |-> "loop", params |-> params, drivers |-> ds, orders |-> SortOrders(os),
   position |-> 1] @@ assignDeliveries(ds, <<>>, params, <<>>)

(* runSimulation has fetched non-empty lists and calls assignDeliveries *)
InitLoop ==
  /\ InitCatalog
  /\ history = <<>>
  /\ clock = 0
  /\ \E p \in SimulationParams :
       /\ FetchDrivers(p.numberOfDrivers) # <<>> /\ routes # <<>> /\ FetchOrders # <<>>
       /\ run = [r \in Requests |-> LoopStart(FetchDrivers(p.numberOfDrivers), FetchOrders, p)]

(* One call of the forEach callback, for the order at position: it returns  *)
(* without an assignment, pushes an assignment and raises the workload of   *)
(* its driver, or throws                                                    *)
ForEachOrder(r) ==
  /\ run[r].pc = "loop"
  /\ run[r].position <= Len(run[r].orders)
  /\ \E rand \in RandomDraws :
       LET st == AssignFrom(run[r].drivers, <<run[r].orders[run[r].position]>>, run[r].params,
                            <<rand>>, 1,
                            [assignments |-> run[r].assignments,
                             driverWorkload |-> run[r].driverWorkload,
                             threw |-> run[r].threw])
       IN  run' = [run EXCEPT ![r].position = @ + 1,
                              ![r].assignments = st.assignments,
                              ![r].driverWorkload = st.driverWorkload,
                              ![r].threw = st.threw,
                              ![r].pc = IF st.threw THEN "threw" ELSE "loop"]
  /\ UNCHANGED <<drivers, routes, orders, history, clock>>

(* return assignments *)
ReturnAssignments(r) ==
  /\ run[r].pc = "loop"
  /\ run[r].position > Len(run[r].orders)
  /\ run' = [run EXCEPT ![r].pc = "returned"]
  /\ UNCHANGED <<drivers, routes, orders, history, clock>>

NextLoop ==
  \/ \E r \in Requests : ForEachOrder(r)
  \/ \E r \in Requests : ReturnAssignments(r)

SpecLoop == InitLoop /\ [][NextLoop]_vars

-----------------------------------------------------------------------------
(* The body of the forEach for one order, one driver and one value of       *)
(* Math.random(), over a range of base times                                *)

MaxBaseTime == 45

DeliveryDraws == {0, 500, 999}

(* One driver, one route and one open order on it are stored; the loop has  *)
(* chosen the driver for the order                                          *)
InitDelivery ==
  /\ \E d \in DriverDocs : drivers = WithIds(<<d>>)
  /\ \E level \in TrafficLevels, base \in 1..MaxBaseTime :
       routes = WithIds(<<[trafficLevel |-> level, distanceKm |-> 1000, baseTimeMinutes |-> base]>>)
  /\ \E v \in OrderValues : orders = WithIds(<<[valueRs |-> v, routeId |-> 1, status |-> "Pending"]>>)
  /\ history = <<>>
  /\ clock = 0
  /\ run = [r \in Requests |-> [pc |-> "chosen", order |-> FetchOrders[1], driver |-> drivers[1]]]

(* The assignment the loop body builds with the value rand of Math.random() *)
SimulateDelivery(r) ==
  /\ run[r].pc = "chosen"
  /\ \E rand \in DeliveryDraws :
       run' = [run EXCEPT ![r] = [pc |-> "assigned", order |-> run[r].order,
                                  driver |-> run[r].driver, rand |-> rand,
                                  assignment |-> MakeAssignment(run[r].order, run[r].driver, rand)]]
  /\ UNCHANGED <<drivers, routes, orders, history, clock>>

NextDelivery == \E r \in Requests : SimulateDelivery(r)

SpecDelivery == InitDelivery /\ [][NextDelivery]_vars

-----------------------------------------------------------------------------
(* The stored simulation results and the requests that read them, next to   *)
(* two POST /api/simulation/run requests                                    *)

QueryRequests == {"query"}

(* The page sizes and offsets a client asks GET /history for; 50 and 0 are  *)
(* the defaults of the handler                                              *)
HistoryLimits == {50}
HistoryOffsets == {0, 1}

(* The answer of GET /kpis when no simulation is stored *)
DefaultKpis ==
  [totalProfit |-> 0, efficiencyScore |-> 0, onTimeDeliveries |-> 0, lateDeliveries |-> 0,
   fuelCostBreakdown |-> [baseCost |-> 0, trafficSurcharge |-> 0, total |-> 0]]

(* SimulationResult.find().sort({timestamp: -1}) *)
HistoryByTimestamp ==
  StableSort(history, [i \in 1..Len(history) |-> 0 - history[i].timestamp])

(* Variant: the sort is ascending, {timestamp: 1} *)
LatestSimulation_Oldest ==
  SubSeq(StableSort(history, [i \in 1..Len(history) |-> history[i].timestamp]),
         1, Min(1, Len(history)))

(* SimulationResult.findOne().sort({timestamp: -1}): the stored result, as  *)
(* a one-element sequence, or <<>> when none is stored                      *)
LatestSimulation == SubSeq(HistoryByTimestamp, 1, Min(1, Len(history)))

(* GET /api/simulation/kpis *)
GetKpis(q) ==
  /\ run' = [run EXCEPT ![q] = [IdleRun EXCEPT
               !.pc = "kpis",
               !.response = [status |-> 200,
                             body |-> IF LatestSimulation = <<>>
                                      THEN DefaultKpis
                                      ELSE LatestSimulation[1].result]]]
  /\ UNCHANGED <<drivers, routes, orders, history, clock>>

(* GET /api/simulation/history?limit=..&offset=..: the query skips offset   *)
(* results of the sorted list and returns at most limit of the rest         *)
GetHistory(q) ==
  /\ \E limit \in HistoryLimits, offset \in HistoryOffsets :
       run' = [run EXCEPT ![q] = [IdleRun EXCEPT
                 !.pc = "history",
                 !.response = [status |-> 200,
                               body |-> SubSeq(HistoryByTimestamp, offset + 1,
                                               Min(offset + limit, Len(history)))]]]
  /\ UNCHANGED <<drivers, routes, orders, history, clock>>

InitHistory ==
  /\ \E k \in {0, MaxDrivers} : drivers = WithIds([i \in 1..k |-> PairDriverDoc])
  /\ \E n \in {2, 3} : routes = SubSeq(WithIds(CatalogRoutes), 1, n)
  /\ orders = WithIds(SubSeq(PairOrderDocs, 1, Min(MaxOrders, Len(PairOrderDocs))))
  /\ history = <<>>
  /\ run = [r \in PairRequests \cup QueryRequests |-> IdleRun]
  /\ clock = 0

NextHistory ==
  \/ \E r \in PairRequests : PostRun(r)
  \/ \E r \in PairRequests : RunInsufficient(r)
  \/ \E r \in PairRequests : RunThrows(r)
  \/ \E r \in PairRequests : RunComputes(r)
  \/ \E r \in PairRequests : SaveResult(r)
  \/ \E q \in QueryRequests : GetKpis(q)
  \/ \E q \in QueryRequests : GetHistory(q)

SpecHistory == InitHistory /\ [][NextHistory]_vars

-----------------------------------------------------------------------------
(* What the properties below speak about *)

(* The run of request r has computed its assignments and its result *)
Computed(r) == run[r].pc = "saving"

AssignmentsOf(r) == {run[r].assignments[i] : i \in 1..Len(run[r].assignments)}

(* The fetched order, its populated route and the pool driver of an assignment *)
OrderOf(r, a) == CHOOSE o \in {run[r].orders[i] : i \in 1..Len(run[r].orders)} : o.id = a.orderId
RouteOf(r, a) == OrderOf(r, a).routeId
DriverOf(r, a) == CHOOSE d \in {run[r].drivers[i] : i \in 1..Len(run[r].drivers)} : d.id = a.driverId

(* The position in the fetched list of the order with this id *)
FetchIndex(os, orderId) == CHOOSE i \in 1..Len(os) : os[i].id = orderId

(* The forEach over the sorted orders reaches os[i] before os[j]: the       *)
(* higher value first, equal values in the order of the fetched list        *)
ProcessedBefore(os, i, j) ==
  os[i].valueRs > os[j].valueRs \/ (os[i].valueRs = os[j].valueRs /\ i < j)

(* The minutes of the deliveries at the positions idx of the assignments *)
RECURSIVE SumActual(_, _)
SumActual(asg, idx) ==
  IF idx = {} THEN 0
  ELSE LET j == CHOOSE j \in idx : TRUE
       IN  asg[j].actualDeliveryTime + SumActual(asg, idx \ {j})

(* driverWorkload of driver d once the assignments at the positions idx are *)
(* recorded: currentShiftHours plus the actual time of d's deliveries       *)
WorkloadAfter(d, asg, idx) ==
  HoursToMinutes(d.currentShiftHours) + SumActual(asg, {j \in idx : asg[j].driverId = d.id})

(* driverWorkload of driver d when the forEach reaches the fetched order i *)
WorkloadAtTurn(d, os, asg, i) ==
  WorkloadAfter(d, asg, {j \in 1..Len(asg) : ProcessedBefore(os, FetchIndex(os, asg[j].orderId), i)})

(* The sum over the assignments at the positions idx of the profit of each   *)
(* delivery, orderValue + bonus - penalty - fuelCost, and of its fuelCost    *)
RECURSIVE SumProfit(_, _)
SumProfit(asg, idx) ==
  IF idx = {} THEN 0
  ELSE LET j == CHOOSE j \in idx : TRUE
       IN  asg[j].orderValue + asg[j].bonus - asg[j].penalty - asg[j].fuelCost
             + SumProfit(asg, idx \ {j})

RECURSIVE SumFuelCost(_, _)
SumFuelCost(asg, idx) ==
  IF idx = {} THEN 0
  ELSE LET j == CHOOSE j \in idx : TRUE
       IN  asg[j].fuelCost + SumFuelCost(asg, idx \ {j})

(* v is x rounded to 2 decimals: a whole number of hundredths (money is in  *)
(* thousandths) at most half a hundredth from x                             *)
IsRoundedToCents(v, x) == v % 10 = 0 /\ v - 5 <= x /\ x <= v + 5

OnTimeCount(r) == Cardinality({i \in 1..Len(run[r].assignments) : run[r].assignments[i].isOnTime})

-----------------------------------------------------------------------------
(* C1: in every run that computed a result, onTimeDeliveries +             *)
(* lateDeliveries equals the number of assignments the assignment loop      *)
(* produced, and that number is at most the number of eligible (Pending /   *)
(* In Progress) orders of the run.                                          *)
C1_CountsMatchAssignments ==
  \A r \in Requests : Computed(r) =>
    /\ run[r].result.onTimeDeliveries + run[r].result.lateDeliveries = Len(run[r].assignments)
    /\ Len(run[r].assignments) <= Len(run[r].orders)
    /\ \A i \in 1..Len(run[r].orders) : run[r].orders[i].status \in {"Pending", "In Progress"}

(* a run that assigned some, but not all, of its eligible orders, with      *)
(* deliveries of both kinds                                                 *)
C1_Witness ==
  \E r \in Requests :
    /\ Computed(r)
    /\ Len(run[r].assignments) < Len(run[r].orders)
    /\ run[r].result.onTimeDeliveries > 0
    /\ run[r].result.lateDeliveries > 0

C3_ZeroExactlyWhenNoAssignments ==
  \A r \in Requests : Computed(r) =>
    (run[r].result.efficiencyScore = 0 <=> Len(run[r].assignments) = 0)

(* C3 amended: efficiencyScore is 0 whenever no assignment of the run was   *)
(* on time, which includes the run that produced no assignment; and in a    *)
(* run of fewer than 2000 assignments it is 0 only then.                    *)
C3_ZeroExactlyWhenNoneOnTime ==
  \A r \in Requests : Computed(r) =>
    /\ OnTimeCount(r) = 0 => run[r].result.efficiencyScore = 0
    /\ (run[r].result.efficiencyScore = 0 /\ Len(run[r].assignments) < 2000)
         => OnTimeCount(r) = 0

(* a run whose assignments are all late, and so scores 0 with assignments *)
C3_Witness ==
  \E r \in Requests :
    /\ Computed(r)
    /\ Len(run[r].assignments) > 0
    /\ OnTimeCount(r) = 0
    /\ run[r].result.efficiencyScore = 0

(* C4: every assignment's bonus is a tenth of the order's valueRs when      *)
(* valueRs > 1000 and the delivery is on time, and 0 otherwise.             *)
C4_BonusRule ==
  \A r \in Requests : \A a \in AssignmentsOf(r) :
    IF OrderOf(r, a).valueRs > 1000 /\ a.isOnTime
    THEN 10 * a.bonus = OrderOf(r, a).valueRs * 1000
    ELSE a.bonus = 0

(* one run with a bonus paid, and an on-time order of exactly 1000 without *)
C4_Witness ==
  \E r \in Requests : \E a, b \in AssignmentsOf(r) :
    /\ a.isOnTime /\ OrderOf(r, a).valueRs = 1500 /\ a.bonus = 150000
    /\ b.isOnTime /\ OrderOf(r, b).valueRs = 1000 /\ b.bonus = 0

(* C5: every assignment's penalty is exactly 50 when the delivery is not on *)
(* time and exactly 0 when it is.                                           *)
C5_PenaltyRule ==
  \A r \in Requests : \A a \in AssignmentsOf(r) :
    a.penalty = IF a.isOnTime THEN 0 ELSE 50 * 1000

(* one run with a late delivery charged 50 and an on-time one charged 0 *)
C5_Witness ==
  \E r \in Requests : \E a, b \in AssignmentsOf(r) :
    /\ ~a.isOnTime /\ a.penalty = 50000
    /\ b.isOnTime /\ b.penalty = 0

(* C6: no assignment has both a bonus and a penalty. *)
C6_BonusPenaltyExclusive ==
  \A r \in Requests : \A a \in AssignmentsOf(r) : ~(a.bonus > 0 /\ a.penalty > 0)

(* a late delivery of an order above 1000: penalised, and without bonus *)
C6_Witness ==
  \E r \in Requests : \E a \in AssignmentsOf(r) :
    /\ OrderOf(r, a).valueRs > 1000
    /\ a.penalty > 0
    /\ a.bonus = 0

(* C7: every assignment's fuelCost is distanceKm * 5 on Low and Medium      *)
(* routes and distanceKm * 7 on High routes (distanceKm in 1/100 km, the    *)
(* cost in 1/1000 rupee), a function of the route alone, and never negative *)
C7_FuelCostRule ==
  \A r \in Requests : \A a \in AssignmentsOf(r) :
    LET route == RouteOf(r, a)
    IN  /\ route.trafficLevel \in {"Low", "Medium"} => 100 * a.fuelCost = route.distanceKm * 5 * 1000
        /\ route.trafficLevel = "High" => 100 * a.fuelCost = route.distanceKm * 7 * 1000
        /\ a.fuelCost >= 0

(* one run with a High route of 10 km costing 70 and a Medium route of      *)
(* 0.25 km costing 1.25                                                     *)
C7_Witness ==
  \E r \in Requests : \E a, b \in AssignmentsOf(r) :
    /\ RouteOf(r, a).trafficLevel = "High" /\ RouteOf(r, a).distanceKm = 1000 /\ a.fuelCost = 70000
    /\ RouteOf(r, b).trafficLevel = "Medium" /\ RouteOf(r, b).distanceKm = 25 /\ b.fuelCost = 1250

(* C8: every assignment's estimatedDeliveryTime is the route's              *)
(* baseTimeMinutes, times 1.3 exactly when the chosen driver's              *)
(* pastWeekHours is above 56, times 1.5 / 1.2 / 1.0 for High / Medium / Low *)
(* traffic (the estimate in 1/100 minute).                                  *)
C8_EstimateRule ==
  \A r \in Requests : \A a \in AssignmentsOf(r) :
    LET route == RouteOf(r, a)
        fatigue == IF DriverOf(r, a).pastWeekHours > 56 THEN 13 ELSE 10
        traffic == CASE route.trafficLevel = "High" -> 15
                     [] route.trafficLevel = "Medium" -> 12
                     [] route.trafficLevel = "Low" -> 10
    IN  a.estimatedDeliveryTime = route.baseTimeMinutes * fatigue * traffic

(* one run where a driver at exactly 56 hours is not slowed down and a      *)
(* driver at 57 hours is, on a High route: 20 * 1.3 * 1.5 = 39              *)
C8_Witness ==
  \E r \in Requests : \E a, b \in AssignmentsOf(r) :
    /\ DriverOf(r, a).pastWeekHours = 56
    /\ a.estimatedDeliveryTime = RouteOf(r, a).baseTimeMinutes * 100
    /\ DriverOf(r, b).pastWeekHours = 57
    /\ RouteOf(r, b).trafficLevel = "High"
    /\ b.estimatedDeliveryTime = 3900

C10_OnTimeAgainstBaseTime ==
  \A r \in Requests : \A a \in AssignmentsOf(r) :
    a.isOnTime <=> a.actualDeliveryTime <= RouteOf(r, a).baseTimeMinutes + 10

(* a delivery within 10 minutes of its adjusted estimate, even earlier than *)
(* the estimate, that is late against the base time                         *)
C10_Witness ==
  \E r \in Requests : \E a \in AssignmentsOf(r) :
    /\ a.estimatedDeliveryTime > RouteOf(r, a).baseTimeMinutes * 100
    /\ 100 * a.actualDeliveryTime <= a.estimatedDeliveryTime
    /\ ~a.isOnTime

(* C11: a run that finds the driver pool, the route catalog or the set of   *)
(* Pending / In Progress orders empty fails with the insufficient-data      *)
(* error: it computes no assignment and no result, and it persists no       *)
(* SimulationResult.  The pools are empty exactly when the stored data has  *)
(* no driver, no route, or no Pending / In Progress order.                  *)
C11_EmptyPoolFails ==
  [][\A r \in Requests :
       /\ (run[r].pc = "idle" /\ run'[r].pc = "fetched") =>
            /\ run'[r].drivers = <<>> <=> drivers = <<>>
            /\ run'[r].routes = <<>> <=> routes = <<>>
            /\ run'[r].orders = <<>> <=>
                 ~\E i \in 1..Len(orders) : orders[i].status \in {"Pending", "In Progress"}
       /\ (/\ run[r].pc = "fetched"
           /\ run[r].drivers = <<>> \/ run[r].routes = <<>> \/ run[r].orders = <<>>
           /\ run'[r] # run[r]) =>
            /\ run'[r].pc = "failed"
            /\ run'[r].response = [status |-> 500, error |-> "Insufficient data"]
            /\ run'[r].assignments = <<>>
            /\ run'[r].result = Null
            /\ history' = history]_vars

(* a run failed for lack of data with drivers, routes and orders stored:    *)
(* none of the stored orders is Pending or In Progress                      *)
C11_Witness ==
  \E r \in Requests :
    /\ run[r].pc = "failed"
    /\ run[r].response = [status |-> 500, error |-> "Insufficient data"]
    /\ drivers # <<>> /\ routes # <<>> /\ orders # <<>>
    /\ history = <<>>

(* C12: an order that is reached when no driver of the pool has a workload  *)
(* below maxHoursPerDriver is left unassigned and the run goes on to its    *)
(* result.  A run with data fails only on an order without a stored route   *)
(* for which a driver was available, never on an unassignable order: when   *)
(* every driver starts at or over the limit the run completes with no       *)
(* assignment.                                                              *)
C12_UnassignableOrderIsSkipped ==
  [][\A r \in Requests : (run[r].pc = "fetched" /\ run'[r] # run[r]) =>
       LET ds == run[r].drivers
           os == run[r].orders
           limit == HoursToMinutes(run[r].params.maxHoursPerDriver)
           asg == run'[r].assignments
           hasData == ds # <<>> /\ run[r].routes # <<>> /\ os # <<>>
           NoneAvailable(i) == \A k \in 1..Len(ds) : WorkloadAtTurn(ds[k], os, asg, i) >= limit
       IN  /\ run'[r].pc \in {"saving", "failed"}
           /\ run'[r].pc = "saving" =>
                \A i \in 1..Len(os) : NoneAvailable(i) =>
                  ~\E j \in 1..Len(asg) : asg[j].orderId = os[i].id
           /\ (run'[r].pc = "failed" /\ hasData) =>
                /\ \E i \in 1..Len(os) : os[i].routeId = Null
                /\ \E k \in 1..Len(ds) : HoursToMinutes(ds[k].currentShiftHours) < limit
           /\ (hasData /\ \A k \in 1..Len(ds) : HoursToMinutes(ds[k].currentShiftHours) >= limit) =>
                run'[r].pc = "saving" /\ asg = <<>>]_vars

(* a run that assigned its first orders, then reached an order with every   *)
(* driver at the limit, left it unassigned and completed; the order it      *)
(* skipped has no stored route, which would have thrown had it been handled *)
C12_Witness ==
  \E r \in Requests :
    /\ Computed(r)
    /\ Len(run[r].assignments) > 0
    /\ \E i \in 1..Len(run[r].orders) :
         /\ run[r].orders[i].routeId = Null
         /\ \A a \in AssignmentsOf(r) : a.orderId # run[r].orders[i].id

(* C13: every assignment goes to a driver of the pool whose workload, at    *)
(* the moment the order is processed, is strictly below maxHoursPerDriver   *)
(* and is the smallest among the pool drivers below that limit; of several  *)
(* such drivers with the same workload, the earliest of the driver list is  *)
(* the one chosen.                                                          *)
C13_LeastLoadedDriverChosen ==
  \A r \in Requests : Computed(r) =>
    LET ds == run[r].drivers
        asg == run[r].assignments
        limit == HoursToMinutes(run[r].params.maxHoursPerDriver)
    IN  \A j \in 1..Len(asg) :
          \E c \in 1..Len(ds) :
            /\ ds[c].id = asg[j].driverId
            /\ WorkloadAfter(ds[c], asg, 1..(j - 1)) < limit
            /\ \A k \in 1..Len(ds) :
                 WorkloadAfter(ds[k], asg, 1..(j - 1)) < limit =>
                   \/ WorkloadAfter(ds[c], asg, 1..(j - 1)) < WorkloadAfter(ds[k], asg, 1..(j - 1))
                   \/ /\ WorkloadAfter(ds[c], asg, 1..(j - 1)) = WorkloadAfter(ds[k], asg, 1..(j - 1))
                      /\ c <= k

(* two drivers start level and under the limit: the first order goes to the *)
(* first of them, the second order to the second, then the less loaded, and *)
(* the third order back to the first although the second is still under the *)
(* limit, because the first is now the less loaded                          *)
C13_Witness ==
  \E r \in Requests :
    /\ Computed(r)
    /\ Len(run[r].drivers) = 2
    /\ Len(run[r].assignments) = 3
    /\ run[r].drivers[1].currentShiftHours = run[r].drivers[2].currentShiftHours
    /\ run[r].assignments[1].driverId = run[r].drivers[1].id
    /\ run[r].assignments[2].driverId = run[r].drivers[2].id
    /\ run[r].assignments[3].driverId = run[r].drivers[1].id
    /\ WorkloadAfter(run[r].drivers[2], run[r].assignments, 1..2) <
         HoursToMinutes(run[r].params.maxHoursPerDriver)

(* C14: the assignments of a run are produced in descending order of value, *)
(* orders of equal value in the order in which they were fetched: of two    *)
(* assignments the earlier has the higher orderValue, or the same           *)
(* orderValue and the earlier position in the fetched list; so orderValue   *)
(* never increases along the assignments.                                   *)
C14_DescendingValueOrder ==
  \A r \in Requests : Computed(r) =>
    LET os == run[r].orders
        asg == run[r].assignments
    IN  \A j, k \in 1..Len(asg) : j < k =>
          /\ asg[j].orderValue >= asg[k].orderValue
          /\ asg[j].orderValue = Rupees(os[FetchIndex(os, asg[j].orderId)].valueRs)
          /\ \/ os[FetchIndex(os, asg[j].orderId)].valueRs > os[FetchIndex(os, asg[k].orderId)].valueRs
             \/ /\ os[FetchIndex(os, asg[j].orderId)].valueRs = os[FetchIndex(os, asg[k].orderId)].valueRs
                /\ FetchIndex(os, asg[j].orderId) < FetchIndex(os, asg[k].orderId)

(* the order fetched first is assigned last because its value is the        *)
(* lowest, and the two orders of equal value before it keep their fetch     *)
(* order                                                                    *)
C14_Witness ==
  \E r \in Requests :
    /\ Computed(r)
    /\ Len(run[r].assignments) = 3
    /\ run[r].assignments[3].orderId = run[r].orders[1].id
    /\ run[r].assignments[1].orderValue = run[r].assignments[2].orderValue
    /\ run[r].assignments[1].orderId = run[r].orders[2].id
    /\ run[r].assignments[2].orderId = run[r].orders[3].id

(* C15: every assignment of a run is for a stored order whose status is     *)
(* Pending or In Progress; an order that is Delivered or Late has no        *)
(* assignment, and the deliveries counted in the result are deliveries of   *)
(* distinct Pending / In Progress orders only.                              *)
C15_OnlyOpenOrdersAssigned ==
  \A r \in Requests : Computed(r) =>
    LET asg == run[r].assignments
        open == {i \in 1..Len(orders) : orders[i].status \in {"Pending", "In Progress"}}
    IN  /\ \A j \in 1..Len(asg) : \E i \in open : orders[i].id = asg[j].orderId
        /\ \A i \in 1..Len(orders) : orders[i].status \in {"Delivered", "Late"} =>
             \A j \in 1..Len(asg) : asg[j].orderId # orders[i].id
        /\ \A j, k \in 1..Len(asg) : asg[j].orderId = asg[k].orderId => j = k
        /\ run[r].result.onTimeDeliveries + run[r].result.lateDeliveries
             = Cardinality({i \in open : \E j \in 1..Len(asg) : asg[j].orderId = orders[i].id})

(* a Delivered order is stored between two open orders; the run had the     *)
(* capacity for every order it fetched and assigned exactly the two open    *)
(* ones                                                                     *)
C15_Witness ==
  \E r \in Requests :
    /\ Computed(r)
    /\ Len(orders) = 3
    /\ orders[2].status = "Delivered"
    /\ Len(run[r].assignments) = 2
    /\ run[r].result.onTimeDeliveries + run[r].result.lateDeliveries = 2

(* C16: the driver pool of a run is the first numberOfDrivers stored        *)
(* drivers, all of them when fewer are stored; every assignment goes to a   *)
(* driver of that prefix, and the assignments of a run name at most         *)
(* numberOfDrivers distinct drivers.                                        *)
C16_PoolIsPrefixOfDrivers ==
  \A r \in Requests : run[r].pc \in {"fetched", "saving"} =>
    LET n == run[r].params.numberOfDrivers
        asg == run[r].assignments
    IN  /\ Len(run[r].drivers) = IF Len(drivers) < n THEN Len(drivers) ELSE n
        /\ \A i \in 1..Len(run[r].drivers) : run[r].drivers[i] = drivers[i]
        /\ \A j \in 1..Len(asg) : \E i \in 1..Len(drivers) :
             i <= n /\ drivers[i].id = asg[j].driverId
        /\ Cardinality({asg[j].driverId : j \in 1..Len(asg)}) <= n

(* two drivers are stored and the run asked for one: all of its assignments *)
(* went to the first driver, also the second assignment, for which the      *)
(* stored second driver had the smaller workload                            *)
C16_Witness ==
  \E r \in Requests :
    /\ Computed(r)
    /\ Len(drivers) = 2
    /\ run[r].params.numberOfDrivers = 1
    /\ Len(run[r].assignments) >= 2
    /\ drivers[2].currentShiftHours <= drivers[1].currentShiftHours
    /\ \A a \in AssignmentsOf(r) : a.driverId = drivers[1].id

(* C17: the totalProfit of a result is the sum over the run's assignments   *)
(* of orderValue + bonus - penalty - fuelCost, rounded to 2 decimals; an    *)
(* order without an assignment adds nothing to it, and it is 0 when the run *)
(* has no assignment.                                                       *)
C17_TotalProfitIsRoundedSum ==
  \A r \in Requests : Computed(r) =>
    LET asg == run[r].assignments
    IN  /\ IsRoundedToCents(run[r].result.totalProfit, SumProfit(asg, 1..Len(asg)))
        /\ asg = <<>> => run[r].result.totalProfit = 0

(* a run with a delivery that earned a bonus, a delivery that paid the late *)
(* penalty, and an order left unassigned                                    *)
C17_Witness ==
  \E r \in Requests :
    /\ Computed(r)
    /\ Len(run[r].assignments) < Len(run[r].orders)
    /\ \E a, b \in AssignmentsOf(r) : a.bonus > 0 /\ b.penalty > 0
    /\ run[r].result.totalProfit > 0

(* C18: in every result the three values of fuelCostBreakdown are whole     *)
(* numbers of hundredths, total differs from baseCost + trafficSurcharge by *)
(* at most 0.01, and total is the sum of the assignments' fuelCost rounded  *)
(* to 2 decimals.                                                           *)
C18_FuelTotalMatchesParts ==
  \A r \in Requests : Computed(r) =>
    LET asg == run[r].assignments
        fuel == run[r].result.fuelCostBreakdown
        gap == fuel.total - (fuel.baseCost + fuel.trafficSurcharge)
    IN  /\ fuel.baseCost % 10 = 0
        /\ fuel.trafficSurcharge % 10 = 0
        /\ fuel.total % 10 = 0
        /\ -10 <= gap /\ gap <= 10
        /\ IsRoundedToCents(fuel.total, SumFuelCost(asg, 1..Len(asg)))

(* a result whose total is not the sum of its two parts: one delivery with  *)
(* a fuel cost of 1.25 is split into 0.875 and 0.375, reported as 0.88 and  *)
(* 0.38, while the total stays 1.25                                         *)
C18_Witness ==
  \E r \in Requests :
    /\ Computed(r)
    /\ Len(run[r].assignments) = 1
    /\ run[r].result.fuelCostBreakdown.total = 1250
    /\ run[r].result.fuelCostBreakdown.baseCost = 880
    /\ run[r].result.fuelCostBreakdown.trafficSurcharge = 380

(* C19 as stated: two runs on the same drivers, routes, orders and          *)
(* parameters produce the same sequence of assigned orders with the same    *)
(* driver for each, whatever the random draws of each run.                  *)
C19_SameOrdersAndDrivers ==
  \A r, q \in PairRequests :
    (/\ Computed(r) /\ Computed(q)
     /\ run[r].params = run[q].params
     /\ run[r].drivers = run[q].drivers
     /\ run[r].routes = run[q].routes
     /\ run[r].orders = run[q].orders) =>
      /\ Len(run[r].assignments) = Len(run[q].assignments)
      /\ \A j \in 1..Len(run[r].assignments) :
           /\ run[r].assignments[j].orderId = run[q].assignments[j].orderId
           /\ run[r].assignments[j].driverId = run[q].assignments[j].driverId

(* C19: two runs on the same drivers, routes, orders and parameters agree   *)
(* on the assigned order and its driver at every position up to and         *)
(* including the first position at which their actualDeliveryTime differ:   *)
(* when the two runs have the same actual times at the positions before j,  *)
(* either both have a j-th assignment or neither has, and the j-th          *)
(* assignments name the same order, driver and route, with the same         *)
(* estimate, value and fuel cost.                                           *)
C19_SameUntilTimesDiffer ==
  \A r, q \in PairRequests :
    (/\ Computed(r) /\ Computed(q)
     /\ run[r].params = run[q].params
     /\ run[r].drivers = run[q].drivers
     /\ run[r].routes = run[q].routes
     /\ run[r].orders = run[q].orders) =>
      LET a == run[r].assignments
          b == run[q].assignments
      IN  \A j \in 1..(Min(Len(a), Len(b)) + 1) :
            (\A i \in 1..(j - 1) : a[i].actualDeliveryTime = b[i].actualDeliveryTime) =>
              /\ j <= Len(a) <=> j <= Len(b)
              /\ j <= Len(a) =>
                   /\ a[j].orderId = b[j].orderId
                   /\ a[j].driverId = b[j].driverId
                   /\ a[j].routeId = b[j].routeId
                   /\ a[j].estimatedDeliveryTime = b[j].estimatedDeliveryTime
                   /\ a[j].orderValue = b[j].orderValue
                   /\ a[j].fuelCost = b[j].fuelCost

(* two runs on the same data and parameters that agree on their first       *)
(* delivery, differ in the actual time of the second, and then part: one    *)
(* assigns a third order, the other has its driver at the limit and stops   *)
C19_Witness ==
  \E r, q \in PairRequests :
    /\ Computed(r) /\ Computed(q)
    /\ run[r].params = run[q].params
    /\ run[r].orders = run[q].orders
    /\ Len(run[r].assignments) = 3
    /\ Len(run[q].assignments) = 2
    /\ run[r].assignments[1] = run[q].assignments[1]
    /\ run[r].assignments[2].actualDeliveryTime # run[q].assignments[2].actualDeliveryTime

(* C20: with two requests in flight, whatever the interleaving of their     *)
(* steps, the assignments and the result of each run are those the engine   *)
(* produces on the drivers and orders that this run fetched, with this      *)
(* run's parameters, for some sequence of random draws; and every run that  *)
(* completed has persisted a record of its own, the one it answered with:   *)
(* the history holds exactly one record for each completed run.             *)
C20_RunsAreIndependent ==
  /\ \A r \in PairRequests : Computed(r) =>
       /\ Len(run[r].drivers) <= run[r].params.numberOfDrivers
       /\ \E draws \in [1..Len(run[r].orders) -> RandomDraws] :
            LET alone == assignDeliveries(run[r].drivers, run[r].orders, run[r].params, draws)
            IN  /\ ~alone.threw
                /\ run[r].assignments = alone.assignments
                /\ run[r].result = calculateResults(alone.assignments)
  /\ LET completed == {r \in PairRequests : run[r].pc = "done"}
     IN  /\ Len(history) = Cardinality(completed)
         /\ \E f \in [completed -> 1..Len(history)] :
              /\ \A r, q \in completed : f[r] = f[q] => r = q
              /\ \A r \in completed :
                   /\ run[r].response.status = 200
                   /\ run[r].response.body = history[f[r]]

(* the two requests ran with different parameters and got different         *)
(* results; the run that computed last saved first, so their steps were     *)
(* interleaved; the history holds the two records                           *)
C20_Witness ==
  /\ \A r \in PairRequests : run[r].pc = "done"
  /\ Len(history) = 2
  /\ history[1].timestamp > history[2].timestamp
  /\ history[1].simulationParams.numberOfDrivers # history[2].simulationParams.numberOfDrivers
  /\ history[1].result # history[2].result

(* C21: the stored simulation results only grow, one record at a time: a    *)
(* step never changes or removes a record that is stored, a record is added *)
(* exactly by the save of a run that computed its result, that record       *)
(* carries the run's result, parameters and timestamp, and a run that fails *)
(* adds none.                                                               *)
C21_HistoryIsAppendOnly ==
  [][/\ Len(history') >= Len(history)
     /\ Len(history') <= Len(history) + 1
     /\ \A i \in 1..Len(history) : history'[i] = history[i]
     /\ Len(history') = Len(history) + 1 <=>
          \E r \in PairRequests : run[r].pc = "saving" /\ run'[r].pc = "done"
     /\ \A r \in PairRequests :
          /\ (run[r].pc = "saving" /\ run'[r].pc = "done") =>
               /\ history'[Len(history')].result = run[r].result
               /\ history'[Len(history')].simulationParams = run[r].params
               /\ history'[Len(history')].timestamp = run[r].timestamp
               /\ run[r].timestamp < clock
          /\ (run[r].pc # "failed" /\ run'[r].pc = "failed") => history' = history]_vars

(* one run failed and one succeeded: one record is stored, and the history  *)
(* request has read it                                                      *)
C21_Witness ==
  /\ \E r, q \in PairRequests : run[r].pc = "failed" /\ run[q].pc = "done"
  /\ Len(history) = 1
  /\ \E c \in QueryRequests : run[c].pc = "history" /\ run[c].response.body = history

(* C27: the KPI request answers with the totalProfit, efficiencyScore,      *)
(* onTimeDeliveries, lateDeliveries and fuelCostBreakdown of the stored     *)
(* result whose timestamp is the most recent, whatever the order in which   *)
(* the results were saved, and with all-zero KPIs while no result is        *)
(* stored; a run that fails leaves the stored results, and so the answer,   *)
(* as they were.                                                            *)
C27_KpisAreLatestResult ==
  [][/\ \A c \in QueryRequests : run'[c].pc = "kpis" /\ run'[c] # run[c] =>
          LET kpis == run'[c].response.body
          IN  /\ history' = history
              /\ history = <<>> =>
                   /\ kpis.totalProfit = 0
                   /\ kpis.efficiencyScore = 0
                   /\ kpis.onTimeDeliveries = 0
                   /\ kpis.lateDeliveries = 0
                   /\ kpis.fuelCostBreakdown = [baseCost |-> 0, trafficSurcharge |-> 0, total |-> 0]
              /\ history # <<>> =>
                   \E i \in 1..Len(history) :
                     /\ \A j \in 1..Len(history) : history[j].timestamp <= history[i].timestamp
                     /\ kpis.totalProfit = history[i].result.totalProfit
                     /\ kpis.efficiencyScore = history[i].result.efficiencyScore
                     /\ kpis.onTimeDeliveries = history[i].result.onTimeDeliveries
                     /\ kpis.lateDeliveries = history[i].result.lateDeliveries
                     /\ kpis.fuelCostBreakdown = history[i].result.fuelCostBreakdown
     /\ \A r \in PairRequests : run'[r].pc = "failed" /\ run[r].pc # "failed" =>
          history' = history]_vars

(* two results are stored, the one saved first has the later timestamp, and *)
(* the KPI request answered with it and not with the result saved last      *)
C27_Witness ==
  /\ Len(history) = 2
  /\ history[1].timestamp > history[2].timestamp
  /\ history[1].result # history[2].result
  /\ \E c \in QueryRequests : run[c].pc = "kpis" /\ run[c].response.body = history[1].result

(* C22: no step of a simulation run, successful or failed, changes a stored *)
(* driver, route or order: the orders a run assigned are still stored with  *)
(* their Pending / In Progress status and the drivers with their            *)
(* currentShiftHours, so a run that fetches later reads the same orders and *)
(* routes, and with the same numberOfDrivers the same drivers, as a run     *)
(* that fetched before it.                                                  *)
C22_RunLeavesStoredDataUnchanged ==
  [][/\ drivers' = drivers
     /\ routes' = routes
     /\ orders' = orders
     /\ \A r \in PairRequests :
          /\ \A j \in 1..Len(run[r].assignments) :
               /\ \E i \in 1..Len(orders') :
                    /\ orders'[i].id = run[r].assignments[j].orderId
                    /\ orders'[i].status \in {"Pending", "In Progress"}
               /\ \E k \in 1..Len(drivers') :
                    /\ drivers'[k].id = run[r].assignments[j].driverId
                    /\ drivers'[k] \in {run[r].drivers[d] : d \in 1..Len(run[r].drivers)}
          /\ (run[r].pc = "idle" /\ run'[r].pc = "fetched") =>
               /\ Len(run'[r].orders) =
                    Cardinality({i \in 1..Len(orders) : orders[i].status \in {"Pending", "In Progress"}})
               /\ \A q \in PairRequests : run[q].pc \in {"fetched", "saving"} =>
                    /\ run'[r].orders = run[q].orders
                    /\ run'[r].routes = run[q].routes
                    /\ run'[r].params.numberOfDrivers = run[q].params.numberOfDrivers =>
                         run'[r].drivers = run[q].drivers]_vars

(* one run has saved its result; the other run, which computed after it, *)
(* still found every stored order open and assigned all of them             *)
C22_Witness ==
  \E r, q \in PairRequests :
    /\ run[q].pc = "done"
    /\ Computed(r)
    /\ run[r].timestamp > history[1].timestamp
    /\ Len(run[r].assignments) = Len(orders)
    /\ history[1].result.onTimeDeliveries + history[1].result.lateDeliveries = Len(orders)

(* C23: when assignDeliveries returns, the workload of every pool driver    *)
(* whose currentShiftHours did not exceed maxHoursPerDriver (its            *)
(* currentShiftHours plus the actual time of the deliveries assigned to it) *)
(* is at most maxHoursPerDriver.                                            *)
C23_WorkloadWithinMaxHours ==
  \A r \in Requests : run[r].pc = "returned" =>
    \A k \in 1..Len(run[r].drivers) :
      HoursToMinutes(run[r].drivers[k].currentShiftHours)
          <= HoursToMinutes(run[r].params.maxHoursPerDriver) =>
        run[r].driverWorkload[run[r].drivers[k].id]
          <= HoursToMinutes(run[r].params.maxHoursPerDriver)

(* C24: at every point of the loop the workload accumulator of each pool    *)
(* driver is the driver's currentShiftHours plus the actual time of the     *)
(* deliveries assigned to that driver so far.  A call of the loop body that *)
(* assigns an order raises the accumulator of the chosen driver by exactly  *)
(* the actualDeliveryTime of the new assignment and leaves the others as    *)
(* they were; a call that skips its order changes no accumulator; so no     *)
(* accumulator ever decreases.                                              *)
C24_WorkloadAccumulator ==
  [][\A r \in Requests : run[r].pc = "loop" =>
       LET ds == run[r].drivers
           asg == run[r].assignments
           new == run'[r].assignments
       IN  /\ \A k \in 1..Len(ds) :
                /\ run[r].driverWorkload[ds[k].id]
                     = WorkloadAfter(ds[k], asg, 1..Len(asg))
                /\ run'[r].driverWorkload[ds[k].id]
                     = WorkloadAfter(ds[k], new, 1..Len(new))
                /\ run'[r].driverWorkload[ds[k].id] >= run[r].driverWorkload[ds[k].id]
                /\ asg = <<>> =>
                     run[r].driverWorkload[ds[k].id] = HoursToMinutes(ds[k].currentShiftHours)
           /\ new = asg => run'[r].driverWorkload = run[r].driverWorkload
           /\ new # asg =>
                /\ Len(new) = Len(asg) + 1
                /\ \A j \in 1..Len(asg) : new[j] = asg[j]
                /\ \A k \in 1..Len(ds) :
                     run'[r].driverWorkload[ds[k].id] =
                       IF ds[k].id = new[Len(new)].driverId
                       THEN run[r].driverWorkload[ds[k].id] + new[Len(new)].actualDeliveryTime
                       ELSE run[r].driverWorkload[ds[k].id]]_vars

(* a loop over two drivers that has assigned two orders to the first driver *)
(* and then one to the second, whose accumulator was still at its           *)
(* currentShiftHours                                                        *)
C24_Witness ==
  \E r \in Requests :
    /\ run[r].pc = "loop"
    /\ Len(run[r].drivers) = 2
    /\ run[r].driverWorkload[run[r].drivers[2].id]
         > HoursToMinutes(run[r].drivers[2].currentShiftHours)
    /\ \E i, j, k \in 1..Len(run[r].assignments) :
         /\ i # j
         /\ run[r].assignments[i].driverId = run[r].drivers[1].id
         /\ run[r].assignments[j].driverId = run[r].drivers[1].id
         /\ run[r].assignments[k].driverId = run[r].drivers[2].id

(* C28: at every point of the loop the assigned orders are a prefix of the  *)
(* orders in processing order: the j-th assignment is for the j-th order of *)
(* the sorted list.  Once a call has skipped its order for lack of an       *)
(* eligible driver, every later call skips its order too, and no driver     *)
(* that has reached maxHoursPerDriver is under it again.                    *)
C28_AssignedOrdersArePrefix ==
  [][\A r \in Requests : run[r].pc = "loop" =>
       LET asg == run[r].assignments
           limit == HoursToMinutes(run[r].params.maxHoursPerDriver)
       IN  /\ Len(asg) <= run[r].position - 1
           /\ \A j \in 1..Len(asg) : asg[j].orderId = run[r].orders[j].id
           /\ Len(asg) < run[r].position - 1 => run'[r].assignments = asg
           /\ \A k \in 1..Len(run[r].drivers) :
                run[r].driverWorkload[run[r].drivers[k].id] >= limit =>
                  run'[r].driverWorkload[run[r].drivers[k].id] >= limit]_vars

(* a loop that assigned its first two orders, skipped the third, and        *)
(* returned                                                                 *)
C28_Witness ==
  \E r \in Requests :
    /\ run[r].pc = "returned"
    /\ Len(run[r].orders) = 3
    /\ Len(run[r].assignments) = 2
    /\ run[r].assignments[2].orderId = run[r].orders[2].id

(* C29: at every point of the loop, the workload of a driver that has been  *)
(* given an assignment, less the actual time of the last delivery assigned  *)
(* to it, is strictly below maxHoursPerDriver; and a driver whose           *)
(* currentShiftHours is maxHoursPerDriver or more has no assignment.        *)
C29_OvershootAtMostOneDelivery ==
  \A r \in Requests : run[r].pc \in {"loop", "returned"} =>
    LET asg == run[r].assignments
        limit == HoursToMinutes(run[r].params.maxHoursPerDriver)
    IN  \A k \in 1..Len(run[r].drivers) :
          LET d == run[r].drivers[k]
              mine == {j \in 1..Len(asg) : asg[j].driverId = d.id}
          IN  /\ mine # {} =>
                   run[r].driverWorkload[d.id]
                     - asg[CHOOSE j \in mine : \A i \in mine : i <= j].actualDeliveryTime < limit
              /\ HoursToMinutes(d.currentShiftHours) >= limit => mine = {}

(* a returned loop with a driver over maxHoursPerDriver after its last      *)
(* delivery, next to a driver that started at the limit and got nothing     *)
C29_Witness ==
  \E r \in Requests :
    /\ run[r].pc = "returned"
    /\ Len(run[r].drivers) = 2
    /\ run[r].driverWorkload[run[r].drivers[1].id]
         > HoursToMinutes(run[r].params.maxHoursPerDriver)
    /\ HoursToMinutes(run[r].drivers[2].currentShiftHours)
         = HoursToMinutes(run[r].params.maxHoursPerDriver)
    /\ run[r].driverWorkload[run[r].drivers[2].id]
         = HoursToMinutes(run[r].drivers[2].currentShiftHours)

(* C25: in every result baseCost is 70% and trafficSurcharge is 30% of the  *)
(* sum of the assignments' fuelCost, each rounded to 2 decimals, whatever   *)
(* the traffic levels of the routes; a run with assignments reports a       *)
(* positive trafficSurcharge also when none of its routes has High traffic. *)
C25_SeventyThirtySplit ==
  \A r \in Requests : Computed(r) =>
    LET asg == run[r].assignments
        fuel == run[r].result.fuelCostBreakdown
        sum == SumFuelCost(asg, 1..Len(asg))
    IN  /\ fuel.baseCost % 10 = 0
        /\ 10 * fuel.baseCost - 50 <= 7 * sum /\ 7 * sum <= 10 * fuel.baseCost + 50
        /\ fuel.trafficSurcharge % 10 = 0
        /\ 10 * fuel.trafficSurcharge - 50 <= 3 * sum /\ 3 * sum <= 10 * fuel.trafficSurcharge + 50
        /\ asg # <<>> => fuel.trafficSurcharge > 0

(* a run whose deliveries were all on Low and Medium routes, which pay no   *)
(* surcharge in their fuelCost, reports a trafficSurcharge                  *)
C25_Witness ==
  \E r \in Requests :
    /\ Computed(r)
    /\ Len(run[r].assignments) >= 2
    /\ \A a \in AssignmentsOf(r) : RouteOf(r, a).trafficLevel # "High"
    /\ \E a \in AssignmentsOf(r) : RouteOf(r, a).trafficLevel = "Medium"
    /\ run[r].result.fuelCostBreakdown.trafficSurcharge > 0

(* C26: a run in which the loop handles an order whose route is missing     *)
(* fails as a whole.  A failed request is answered with status 500 and      *)
(* carries no assignment and no result, and nothing is stored for it; a run *)
(* that computed a result handled no order with a missing route: every such *)
(* order was reached with all drivers at or over maxHoursPerDriver and      *)
(* skipped.                                                                 *)
C26_ExceptionFailsWholeRun ==
  \A r \in Requests :
    /\ run[r].pc = "failed" =>
         /\ run[r].response.status = 500
         /\ run[r].result = Null
         /\ run[r].assignments = <<>>
         /\ history = <<>>
    /\ (run[r].pc = "failed" /\ run[r].response.error # "Insufficient data") =>
         /\ drivers # <<>> /\ routes # <<>>
         /\ \E i \in 1..Len(orders) :
              /\ orders[i].status \in {"Pending", "In Progress"}
              /\ \A k \in 1..Len(routes) : routes[k].id # orders[i].routeId
    /\ Computed(r) =>
         \A i \in 1..Len(run[r].orders) : run[r].orders[i].routeId = Null =>
           \A k \in 1..Len(run[r].drivers) :
             WorkloadAtTurn(run[r].drivers[k], run[r].orders, run[r].assignments, i)
               >= HoursToMinutes(run[r].params.maxHoursPerDriver)

(* drivers, routes and open orders are stored, the order of lowest value    *)
(* refers to a deleted route and the orders before it to stored routes: the *)
(* run failed on the last order, after it had handled the others, and       *)
(* nothing of it is left                                                    *)
C26_Witness ==
  \E r \in Requests :
    /\ run[r].pc = "failed"
    /\ run[r].response.error = "TypeError"
    /\ Len(orders) = 3
    /\ \A i \in 1..3 : orders[i].status \in {"Pending", "In Progress"}
    /\ \A i \in 1..2 : orders[i].valueRs > orders[3].valueRs
    /\ \A i \in 1..2 : \E k \in 1..Len(routes) : routes[k].id = orders[i].routeId
    /\ history = <<>>

====
